---- MODULE Spec2Model ----
(***************************************************************************)
(* Model of pdf-comp: the page orchestrator EqualPDFs (pdfcomp/pdfcomp.go) *)
(* and the bitmap helpers it drives (imgutils.go).                         *)
(*                                                                         *)
(* A matrix is a sequence of rows, a row a sequence of bytes (0..255),     *)
(* three bytes per pixel.  Go indexes from 0, TLA+ sequences from 1: the   *)
(* operators keep Go's 0-based arithmetic and add 1 where they index.      *)
(* A Go call that can return an error or panic is modelled by an outcome   *)
(* record whose kind is "ok", "err" or "panic".                            *)
(***************************************************************************)
EXTENDS Integers, Sequences, FiniteSets, TLC

VARIABLES
    pc,        \* position inside EqualPDFs (or inside the helper under test)
    file1, file2, images, pdf, radius,   \* arguments (pdf: the writer is non-nil; radius: resolution/ratio)
    pages1, pages2,                      \* results of PageCount
    page,                                \* i + 1 of the page loop
    ppm1, ppm2,                          \* pixel dumps returned by PdfToPPM
    mat1, mat2,                          \* matrices returned by ppmToMatrix
    same,                                \* running aggregate
    diff,                                \* mask returned by equalImgMatrix
    img1, img2, joined, padding,         \* annotated images, their join, the gutter width
    pngFiles,                            \* PageFile entries collected for BuildPDF
    renders,                             \* PdfToPPM invocations so far, <<file, page>>
    written,                             \* pages whose diff png exists on disk
    built,                               \* BuildPDF has been called
    err,                                 \* the error value a callee produced
    ret                                  \* what EqualPDFs returned

vars == <<pc, file1, file2, images, pdf, radius, pages1, pages2, page, ppm1, ppm2,
          mat1, mat2, same, diff, img1, img2, joined, padding, pngFiles, renders,
          written, built, err, ret>>

\* ------------------------------------------------------------------ bounds
MaxPages == 3
MaxPixels == 4
MaxRadius == 1
MaxPadding == 2
MaxDumpDim == 1
MaxSamples == 3

\* ----------------------------------------------------------------- helpers
None == "nil"

Ok(v) == [kind |-> "ok", val |-> v, err |-> None]
Err(e) == [kind |-> "err", val |-> <<>>, err |-> e]
Panic == [kind |-> "panic", val |-> <<>>, err |-> None]

Min(a, b) == IF a < b THEN a ELSE b

\* Go's copy(dst[low:], src): min(len(dst) - low, len(src)) elements are copied
goCopy(dst, low, src) ==
    [b \in 1..Len(dst) |-> IF b > low /\ b - low <= Len(src) THEN src[b - low] ELSE dst[b]]

\* ------------------------------------------------------------- imgutils.go

RECURSIVE concatRows(_, _)
concatRows(mat, y) ==
    IF y > Len(mat) THEN <<>> ELSE mat[y] \o concatRows(mat, y + 1)

\* sha256 over the rows written one after the other; the digest is taken
\* to be collision-free, so it is the byte sequence that was written
hash(mat) == concatRows(mat, 1)

diffMatrix_firstByteOnly(m1, m2) ==
    IF Len(m1) # Len(m2)
    THEN Err("diffMatrix: inputs do not have the same height")
    ELSE IF \E y \in 1..Len(m1) : Len(m1[y]) # Len(m2[y])
    THEN Err("diffMatrix: inputs do not have the same width")
    ELSE Ok([y \in 1..Len(m1) |->
               [x \in 1..(Len(m1[y]) \div 3) |-> m1[y][(x - 1) * 3 + 1] # m2[y][(x - 1) * 3 + 1]]])

diffMatrix(m1, m2) ==
    IF Len(m1) # Len(m2)
    THEN Err("diffMatrix: inputs do not have the same height")
    ELSE IF \E y \in 1..Len(m1) : Len(m1[y]) # Len(m2[y])
    THEN Err("diffMatrix: inputs do not have the same width")
    ELSE Ok([y \in 1..Len(m1) |->
               [x \in 1..(Len(m1[y]) \div 3) |->
                   SubSeq(m1[y], (x - 1) * 3 + 1, x * 3) # SubSeq(m2[y], (x - 1) * 3 + 1, x * 3)]])

\* The outcome carries same, the mask, and the error diffMatrix produced.
\* Both trace lines index row 0 before the error is looked at: mat1[0] of an
\* empty mat1 and diff[0] of the nil mask of a failed diffMatrix panic.
equalImgMatrix(m1, m2, wantDiff) ==
    IF hash(m1) = hash(m2)
    THEN [kind |-> "ok", same |-> TRUE, diff |-> <<>>, err |-> None]
    ELSE IF wantDiff
    THEN IF Len(m1) = 0
         THEN [kind |-> "panic", same |-> FALSE, diff |-> <<>>, err |-> None]
         ELSE LET d == diffMatrix(m1, m2)
              IN IF Len(d.val) = 0
                 THEN [kind |-> "panic", same |-> FALSE, diff |-> <<>>, err |-> d.err]
                 ELSE [kind |-> "ok", same |-> FALSE, diff |-> d.val, err |-> None]
    ELSE [kind |-> "ok", same |-> FALSE, diff |-> <<>>, err |-> None]

\* The sample loops of ppmToMatrix, one sample per step; k samples are stored.
\* The read comes first (EOF is an error), then the rescaling divides.
RECURSIVE readSamples(_, _, _)
readSamples(ppm, k, flat) ==
    IF k = ppm.height * ppm.width * 3 THEN Ok(flat)
    ELSE IF k >= Len(ppm.data) THEN Err("EOF")
    ELSE IF ppm.maxColor = 0 THEN Panic
    ELSE readSamples(ppm, k + 1,
                     Append(flat, ((ppm.data[k + 1] * 255) \div ppm.maxColor) % 256))

\* A dump is its header fields and its samples (tokens of the text variant,
\* bytes of the binary one); the empty stream has no format line to read.
ppmToMatrix(ppm) ==
    IF ppm.format = "" THEN Err("EOF")
    ELSE IF ppm.format \notin {"P3", "P6"} THEN Err("unsupported PPM format")
    ELSE LET r == readSamples(ppm, 0, <<>>)
             w == ppm.width * 3
         IN IF r.kind # "ok" THEN r
            ELSE Ok([y \in 1..ppm.height |-> SubSeq(r.val, (y - 1) * w + 1, y * w)])

circle(r) ==
    [y \in 1..(2 * r + 1) |->
        [x \in 1..(2 * r + 1) |->
            IF (x - 1 - r) * (x - 1 - r) + (y - 1 - r) * (y - 1 - r) <= r * r THEN 255 ELSE 0]]

\* float64(c)*0.5 + 255*0.5 truncated to a byte; the clamps at 255 stay
highlightPixel(r, g, b) ==
    <<Min((r + 255) \div 2, 255), Min((g + 255) \div 2, 255), Min(b \div 2, 255)>>

\* stamp cell (sy, sx) lands on row matrixY, byte offset matrixX (0-based)
stampHits(img, stamp, centerX, centerY, matrixY, matrixX) ==
    \E sy \in 0..(Len(stamp) - 1), sx \in 0..(Len(stamp[1]) - 1) :
        /\ matrixY = centerY - (Len(stamp) \div 2) + sy
        /\ ~(matrixY < 0 \/ matrixY >= Len(img))
        /\ matrixX = centerX - (Len(stamp[1]) \div 2) * 3 + sx * 3
        /\ ~(matrixX < 0 \/ matrixX + 2 >= Len(img[1]))
        /\ stamp[sy + 1][sx + 1] # 0

highlightStamp_compound(img, newImage, stamp, centerX, centerY) ==
    [img |-> img,
     newImage |->
        [y \in 1..Len(newImage) |->
            [b \in 1..Len(newImage[y]) |->
                LET mx == (b - 1) - ((b - 1) % 3)
                IN IF y <= Len(img) /\ stampHits(img, stamp, centerX, centerY, y - 1, mx)
                   THEN highlightPixel(newImage[y][mx + 1], newImage[y][mx + 2],
                                       newImage[y][mx + 3])[((b - 1) % 3) + 1]
                   ELSE newImage[y][b]]]]

\* The two slices are passed by reference; the outcome gives both as the
\* call leaves them.  Every stamp cell writes a different pixel of newImage
\* and reads img, so the loop is given per written byte.
highlightStamp(img, newImage, stamp, centerX, centerY) ==
    [img |-> img,
     newImage |->
        [y \in 1..Len(newImage) |->
            [b \in 1..Len(newImage[y]) |->
                LET mx == (b - 1) - ((b - 1) % 3)
                IN IF y <= Len(img) /\ stampHits(img, stamp, centerX, centerY, y - 1, mx)
                   THEN highlightPixel(img[y][mx + 1], img[y][mx + 2],
                                       img[y][mx + 3])[((b - 1) % 3) + 1]
                   ELSE newImage[y][b]]]]

\* the y / x loops of diffImage over the mask, stamping at each true entry
RECURSIVE stampFrom(_, _, _, _, _, _)
stampFrom(mat, newMat, stamp, d, y, x) ==
    IF y >= Len(d) THEN [mat |-> mat, newMat |-> newMat]
    ELSE IF x >= Len(d[y + 1]) THEN stampFrom(mat, newMat, stamp, d, y + 1, 0)
    ELSE IF d[y + 1][x + 1]
    THEN LET s == highlightStamp(mat, newMat, stamp, x * 3, y)
         IN stampFrom(s.img, s.newImage, stamp, d, y, x + 1)
    ELSE stampFrom(mat, newMat, stamp, d, y, x + 1)

\* newMat starts as a copy of mat; the outcome gives mat as the call leaves it
diffImage(mat, d, r) ==
    stampFrom(mat, [y \in 1..Len(mat) |-> mat[y]], circle(r), d, 0, 0)

joinImages(i1, i2, pad) ==
    IF Len(i1) = 0 \/ Len(i2) = 0 THEN Panic
    ELSE LET height == Len(i1)
             width == Len(i1[1]) + pad + Len(i2[1])
             low(i) == Len(i1[i]) + pad + 1
             row(i) == goCopy(goCopy([b \in 1..width |-> 0], 0, i1[i]), low(i), i2[i])
         IN IF \E i \in 1..height : i > Len(i2) \/ low(i) > width
            THEN Panic
            ELSE Ok([i \in 1..height |-> row(i)])


\* ----------------------------------------------------- the two collaborators
Files == {"a.pdf", "b.pdf"}

Dump(f, w, h, m, d) == [format |-> f, width |-> w, height |-> h, maxColor |-> m, data |-> d]
NoDump == Dump("", 0, 0, 0, <<>>)

\* what pdftoppm may hand back for a page: one black pixel, one white pixel
\* (binary, and text with maxColor 1), two black pixels side by side, two
\* black pixels one above the other, a dump with maxColor 0, a truncated dump
PageDumps ==
    { Dump("P6", 1, 1, 255, <<0, 0, 0>>),
      Dump("P6", 1, 1, 255, <<255, 255, 255>>),
      Dump("P3", 1, 1, 1, <<1, 1, 1>>),
      Dump("P6", 2, 1, 255, <<0, 0, 0, 0, 0, 0>>),
      Dump("P6", 1, 2, 255, <<0, 0, 0, 0, 0, 0>>),
      Dump("P3", 1, 1, 0, <<0, 0, 0>>),
      Dump("P6", 1, 1, 255, <<0>>) }

\* pdftoppm exits without error: with a dump of the page, or with no output
\* at all for a page the file does not have
Rendered(p, pages) == IF p <= pages THEN PageDumps ELSE {NoDump}

Gutter == 5

NoRet == [set |-> FALSE, same |-> FALSE, err |-> None]

\* ------------------------------------------------------ pdfcomp/pdfcomp.go
Init ==
    /\ pc = "start"
    /\ file1 \in Files /\ file2 \in Files
    /\ images \in BOOLEAN /\ pdf \in BOOLEAN
    /\ radius \in 0..MaxRadius
    /\ pages1 = 0 /\ pages2 = 0 /\ page = 0
    /\ ppm1 = NoDump /\ ppm2 = NoDump
    /\ mat1 = <<>> /\ mat2 = <<>>
    /\ same = TRUE
    /\ diff = <<>>
    /\ img1 = <<>> /\ img2 = <<>> /\ joined = <<>>
    /\ padding = Gutter
    /\ pngFiles = <<>> /\ renders = <<>> /\ written = {} /\ built = FALSE
    /\ err = None /\ ret = NoRet

args == <<file1, file2, images, pdf, radius, padding>>
locals == <<ppm1, ppm2, mat1, mat2, diff, img1, img2, joined>>
effects == <<renders, written, built>>

Return(s, e) == pc' = "done" /\ ret' = [set |-> TRUE, same |-> s, err |-> e]

\* a runtime panic leaves the call without a return value
Crash == pc' = "panic" /\ ret' = ret

\* file1 == file2
Start ==
    /\ pc = "start"
    /\ IF file1 = file2 THEN Return(TRUE, None) ELSE pc' = "count1" /\ ret' = ret
    /\ UNCHANGED <<args, locals, effects, pages1, pages2, page, same, pngFiles, err>>

Count1 ==
    /\ pc = "count1"
    /\ \/ /\ err' = "page count" /\ Return(FALSE, "page count") /\ pages1' = pages1
       \/ /\ pages1' \in 0..MaxPages /\ pc' = "count2" /\ UNCHANGED <<err, ret>>
    /\ UNCHANGED <<args, locals, effects, pages2, page, same, pngFiles>>

\* PageCount(file2), the pages1 != pages2 test, and the loop's initialisation
Count2 ==
    /\ pc = "count2"
    /\ \/ /\ err' = "page count" /\ Return(FALSE, "page count") /\ pages2' = pages2
       \/ /\ pages2' \in 0..MaxPages
          /\ err' = err
          /\ IF pages1 # pages2' /\ ~images
             THEN Return(FALSE, None)
             ELSE pc' = "loop" /\ ret' = ret
    /\ UNCHANGED <<args, locals, effects, pages1, page, same, pngFiles>>

\* for i := range pages1: the loop's own variables start afresh
LoopHead ==
    /\ pc = "loop"
    /\ IF page < pages1
       THEN /\ page' = page + 1 /\ pc' = "render1"
            /\ ppm1' = NoDump /\ ppm2' = NoDump /\ mat1' = <<>> /\ mat2' = <<>>
            /\ diff' = <<>> /\ img1' = <<>> /\ img2' = <<>> /\ joined' = <<>>
       ELSE /\ pc' = "build" /\ UNCHANGED <<page, locals>>
    /\ UNCHANGED <<args, effects, pages1, pages2, same, pngFiles, err, ret>>

Render1 ==
    /\ pc = "render1"
    /\ renders' = Append(renders, <<1, page>>)
    /\ \/ /\ err' = "pdftoppm failed" /\ Return(FALSE, "pdftoppm failed") /\ ppm1' = ppm1
       \/ /\ ppm1' \in Rendered(page, pages1) /\ pc' = "render2" /\ UNCHANGED <<err, ret>>
    /\ UNCHANGED <<args, pages1, pages2, page, ppm2, mat1, mat2, diff, img1, img2, joined,
                   same, pngFiles, written, built>>

Render2 ==
    /\ pc = "render2"
    /\ renders' = Append(renders, <<2, page>>)
    /\ \/ /\ err' = "pdftoppm failed" /\ Return(FALSE, "pdftoppm failed") /\ ppm2' = ppm2
       \/ /\ ppm2' \in Rendered(page, pages2) /\ pc' = "parse1" /\ UNCHANGED <<err, ret>>
    /\ UNCHANGED <<args, pages1, pages2, page, ppm1, mat1, mat2, diff, img1, img2, joined,
                   same, pngFiles, written, built>>

Parse1 ==
    /\ pc = "parse1"
    /\ LET r == ppmToMatrix(ppm1)
       IN /\ mat1' = r.val
          /\ err' = r.err
          /\ CASE r.kind = "ok" -> pc' = "parse2" /\ ret' = ret
               [] r.kind = "err" -> Return(FALSE, r.err)
               [] OTHER -> Crash
    /\ UNCHANGED <<args, effects, pages1, pages2, page, ppm1, ppm2, mat2, diff, img1, img2,
                   joined, same, pngFiles>>

Parse2 ==
    /\ pc = "parse2"
    /\ LET r == ppmToMatrix(ppm2)
       IN /\ mat2' = r.val
          /\ err' = r.err
          /\ CASE r.kind = "ok" -> pc' = "compare" /\ ret' = ret
               [] r.kind = "err" -> Return(FALSE, r.err)
               [] OTHER -> Crash
    /\ UNCHANGED <<args, effects, pages1, pages2, page, ppm1, ppm2, mat1, diff, img1, img2,
                   joined, same, pngFiles>>

afterCompare_noBreak(sameNow, wantOut) ==
    IF ~sameNow /\ wantOut THEN "emit" ELSE "loop"

\* if !same && (images || pdf != nil) {...} else if !same { break }
afterCompare(sameNow, wantOut) ==
    IF ~sameNow /\ wantOut THEN "emit"
    ELSE IF ~sameNow THEN "build"
    ELSE "loop"

\* equalImgMatrix, same = same && thisSame, and the choice of branch
Compare ==
    /\ pc = "compare"
    /\ LET r == equalImgMatrix(mat1, mat2, images \/ pdf)
       IN /\ diff' = r.diff
          /\ err' = r.err
          /\ CASE r.kind = "panic" -> Crash /\ same' = same
               [] r.kind = "ok" /\ r.err # None -> Return(FALSE, r.err) /\ same' = (same /\ r.same)
               [] OTHER ->
                    /\ same' = (same /\ r.same)
                    /\ ret' = ret
                    /\ pc' = afterCompare(same', images \/ pdf)
    /\ UNCHANGED <<args, effects, pages1, pages2, page, ppm1, ppm2, mat1, mat2, img1, img2,
                   joined, pngFiles>>

\* diffImage twice, joinImages, os.Create, png.Encode, the PageFile entry
Emit ==
    /\ pc = "emit"
    /\ LET a1 == diffImage(mat1, diff, radius)
           a2 == diffImage(mat2, diff, radius)
           j == joinImages(a1.newMat, a2.newMat, padding)
       IN /\ mat1' = a1.mat /\ mat2' = a2.mat
          /\ img1' = a1.newMat /\ img2' = a2.newMat
          /\ joined' = j.val
          /\ IF j.kind = "panic"
             THEN Crash /\ UNCHANGED <<written, pngFiles, err>>
             ELSE \/ /\ err' = "create failed" /\ Return(FALSE, "create failed")
                     /\ UNCHANGED <<written, pngFiles>>
                  \/ /\ written' = written \cup {page}
                     /\ err' = "encode failed" /\ Return(FALSE, "encode failed")
                     /\ UNCHANGED pngFiles
                  \/ /\ written' = written \cup {page}
                     /\ pngFiles' = IF pdf THEN Append(pngFiles, page) ELSE pngFiles
                     /\ pc' = "loop"
                     /\ UNCHANGED <<err, ret>>
    /\ UNCHANGED <<args, pages1, pages2, page, ppm1, ppm2, diff, same, renders, built>>

\* after the loop: BuildPDF when a writer was given and a page differed
Build ==
    /\ pc = "build"
    /\ IF pdf /\ ~same
       THEN /\ built' = TRUE
            /\ \/ err' = "BuildPDF failed" /\ Return(FALSE, "BuildPDF failed")
               \/ err' = err /\ Return(same, None)
       ELSE built' = built /\ err' = err /\ Return(same, None)
    /\ UNCHANGED <<args, locals, pages1, pages2, page, same, pngFiles, renders, written>>

Next ==
    \/ Start \/ Count1 \/ Count2 \/ LoopHead \/ Render1 \/ Render2
    \/ Parse1 \/ Parse2 \/ Compare \/ Emit \/ Build

Spec == Init /\ [][Next]_vars


\* ------------------------------------------- the helpers, called on their own
\* Inputs of the helpers: matrices of h rows of w pixels, h * w <= MaxPixels.
Shapes == {sh \in (1..MaxPixels) \X (1..MaxPixels) : sh[1] * sh[2] <= MaxPixels}

PixelVals == {<<0, 0, 0>>, <<0, 0, 255>>, <<255, 255, 255>>}
JoinVals == {<<10, 20, 30>>, <<255, 255, 255>>}

\* rows of interleaved R, G, B bytes from a grid of pixels
toBytes(grid, h, w) ==
    [y \in 1..h |-> [b \in 1..(3 * w) |-> grid[y][((b - 1) \div 3) + 1][((b - 1) % 3) + 1]]]

Matrices(sh, vals) ==
    {toBytes(grid, sh[1], sh[2]) : grid \in [1..sh[1] -> [1..sh[2] -> vals]]}

Masks(sh) == [1..sh[1] -> [1..sh[2] -> BOOLEAN]]

Dumps ==
    {Dump(f, w, h, m, d) :
        f \in {"P3", "P6", "P5"}, w \in 1..MaxDumpDim, h \in 1..MaxDumpDim, m \in {0, 1, 255},
        d \in UNION {[1..n -> {0, 1}] : n \in 0..MaxSamples}}

\* a helper called with the given arguments, outside any comparison
Called(p1, m1, m2, d, r, i1, i2, pad) ==
    /\ pc = "call"
    /\ file1 = "a.pdf" /\ file2 = "b.pdf" /\ images = TRUE /\ pdf = FALSE
    /\ radius = r
    /\ pages1 = 0 /\ pages2 = 0 /\ page = 0
    /\ ppm1 = p1 /\ ppm2 = NoDump
    /\ mat1 = m1 /\ mat2 = m2
    /\ same = TRUE
    /\ diff = d
    /\ img1 = i1 /\ img2 = i2 /\ joined = <<>>
    /\ padding = pad
    /\ pngFiles = <<>> /\ renders = <<>> /\ written = {} /\ built = FALSE
    /\ err = None /\ ret = NoRet

orchestrator == <<file1, file2, images, pdf, pages1, pages2, page, same, pngFiles,
                  renders, written, built, ret>>

\* diffMatrix(mat1, mat2) on two matrices of one shape
InitDiff ==
    \E sh \in Shapes : \E m1 \in Matrices(sh, PixelVals), m2 \in Matrices(sh, PixelVals) :
        Called(NoDump, m1, m2, <<>>, 0, <<>>, <<>>, Gutter)

DiffMatrixCall ==
    /\ pc = "call"
    /\ LET r == diffMatrix(mat1, mat2)
       IN diff' = r.val /\ err' = r.err /\ pc' = "return"
    /\ UNCHANGED <<orchestrator, radius, padding, ppm1, ppm2, mat1, mat2, img1, img2, joined>>

SpecDiff == InitDiff /\ [][DiffMatrixCall]_vars

\* diffImage(mat1, diff, radius)
InitImage ==
    \E sh \in Shapes : \E m1 \in Matrices(sh, PixelVals), d \in Masks(sh), r \in 0..MaxRadius :
        Called(NoDump, m1, <<>>, d, r, <<>>, <<>>, Gutter)

DiffImageCall ==
    /\ pc = "call"
    /\ LET r == diffImage(mat1, diff, radius)
       IN mat1' = r.mat /\ img1' = r.newMat /\ pc' = "return"
    /\ UNCHANGED <<orchestrator, radius, padding, ppm1, ppm2, mat2, diff, img2, joined, err>>

SpecImage == InitImage /\ [][DiffImageCall]_vars

\* joinImages(img1, img2, padding) on two images of one height
InitJoin ==
    \E s1 \in Shapes, s2 \in Shapes :
        /\ s1[1] = s2[1]
        /\ \E i1 \in Matrices(s1, JoinVals), i2 \in Matrices(s2, JoinVals), pad \in 0..MaxPadding :
              Called(NoDump, <<>>, <<>>, <<>>, 0, i1, i2, pad)

JoinImagesCall ==
    /\ pc = "call"
    /\ LET r == joinImages(img1, img2, padding)
       IN joined' = r.val /\ pc' = IF r.kind = "panic" THEN "panic" ELSE "return"
    /\ UNCHANGED <<orchestrator, radius, padding, ppm1, ppm2, mat1, mat2, diff, img1, img2, err>>

SpecJoin == InitJoin /\ [][JoinImagesCall]_vars

\* ppmToMatrix(ppm1)
InitPpm ==
    \E d \in Dumps : Called(d, <<>>, <<>>, <<>>, 0, <<>>, <<>>, Gutter)

PpmToMatrixCall ==
    /\ pc = "call"
    /\ LET r == ppmToMatrix(ppm1)
       IN mat1' = r.val /\ err' = r.err /\ pc' = IF r.kind = "panic" THEN "panic" ELSE "return"
    /\ UNCHANGED <<orchestrator, radius, padding, ppm1, ppm2, mat2, diff, img1, img2, joined>>

SpecPpm == InitPpm /\ [][PpmToMatrixCall]_vars


\* equalImgMatrix(mat1, mat2, images || pdf != nil) on two matrices of any two
\* shapes, black and white pixels
EqualVals == {<<0, 0, 0>>, <<255, 255, 255>>}

InitEqual ==
    \E s1 \in Shapes, s2 \in Shapes :
        \E m1 \in Matrices(s1, EqualVals), m2 \in Matrices(s2, EqualVals) :
            /\ pc = "call"
            /\ file1 = "a.pdf" /\ file2 = "b.pdf" /\ images \in BOOLEAN /\ pdf = FALSE
            /\ radius = 0
            /\ pages1 = 0 /\ pages2 = 0 /\ page = 0
            /\ ppm1 = NoDump /\ ppm2 = NoDump
            /\ mat1 = m1 /\ mat2 = m2
            /\ same = TRUE
            /\ diff = <<>>
            /\ img1 = <<>> /\ img2 = <<>> /\ joined = <<>>
            /\ padding = Gutter
            /\ pngFiles = <<>> /\ renders = <<>> /\ written = {} /\ built = FALSE
            /\ err = None /\ ret = NoRet

EqualImgMatrixCall ==
    /\ pc = "call"
    /\ LET r == equalImgMatrix(mat1, mat2, images \/ pdf)
       IN /\ same' = r.same /\ diff' = r.diff /\ err' = r.err
          /\ pc' = IF r.kind = "panic" THEN "panic" ELSE "return"
    /\ UNCHANGED <<file1, file2, images, pdf, pages1, pages2, page, pngFiles, renders,
                   written, built, ret, radius, padding, ppm1, ppm2, mat1, mat2, img1, img2,
                   joined>>

SpecEqual == InitEqual /\ [][EqualImgMatrixCall]_vars

\* ------------------------------------------------------------------ claims
SameShape(m1, m2) ==
    /\ Len(m1) = Len(m2)
    /\ \A y \in 1..Len(m1) : Len(m1[y]) = Len(m2[y])

pixelAt(m, y, x) == <<m[y][3 * (x - 1) + 1], m[y][3 * (x - 1) + 2], m[y][3 * (x - 1) + 3]>>

\* the current page's two matrices are comparable and some byte differs
PagesDiffer == SameShape(mat1, mat2) /\ mat1 # mat2

\* both dumps of the current page went through ppmToMatrix
BothParsed ==
    /\ pc \notin {"parse1", "parse2", "compare"}
    /\ ppmToMatrix(ppm1).kind = "ok"
    /\ ppmToMatrix(ppm2).kind = "ok"

renderedPages == {renders[i][2] : i \in 1..Len(renders)}

C2_OnlyDifferingPages ==
    (page \in written \/ (\E i \in 1..Len(pngFiles) : pngFiles[i] = page)) => mat1 # mat2

\* C3: with different page counts, EqualPDFs returns false without rendering
\* only when neither images nor a pdf writer was given; with either, it goes on
\* to render exactly the pages 1..min(pages1, pages2) and no page beyond them.
C3_PageCountMismatch ==
    (pc \notin {"start", "count1", "count2"} /\ err # "page count" /\ pages1 # pages2) =>
        /\ (~images /\ ~pdf) =>
              (pc = "done" /\ renders = <<>> /\ ret = [set |-> TRUE, same |-> FALSE, err |-> None])
        /\ (images \/ pdf) =>
              /\ \A p \in renderedPages : p <= Min(pages1, pages2)
              /\ (pc = "done" /\ ret.err = None) => renderedPages = 1..Min(pages1, pages2)

\* C4: when the two parsed matrices of a page differ in height or in the
\* length of a row, the call ends by returning diffMatrix's error.
C4_DimensionMismatchFails ==
    (BothParsed /\ ~SameShape(mat1, mat2)) =>
        /\ pc = "done"
        /\ ret.set /\ ~ret.same
        /\ ret.err \in {"diffMatrix: inputs do not have the same height",
                        "diffMatrix: inputs do not have the same width"}

\* C5: ppmToMatrix on a text or binary dump whose maxColor is 0 returns an
\* error and no matrix; it does not panic.
C5_ZeroMaxValueIsError ==
    (pc # "call" /\ ppm1.format \in {"P3", "P6"} /\ ppm1.maxColor = 0) =>
        (pc = "return" /\ err # None /\ mat1 = <<>>)

\* C6: joinImages returns, row by row, img1's row, then padding zero bytes,
\* then img2's row, whole.
C6_JoinLayout ==
    (pc # "call") =>
        /\ pc = "return"
        /\ Len(joined) = Len(img1)
        /\ \A i \in 1..Len(img1) :
              joined[i] = img1[i] \o [b \in 1..padding |-> 0] \o img2[i]

\* C7: on two matrices of one shape diffMatrix returns no error and a mask of
\* one entry per pixel, true exactly where one of the three bytes differs; so
\* the mask of equal matrices is all false, the mask does not depend on the
\* order of the arguments, and one differing pixel gives one true entry, there.
C7_DiffMask ==
    (pc = "return") =>
        LET differing == {yx \in (1..Len(mat1)) \X (1..MaxPixels) :
                             /\ yx[2] <= Len(mat1[yx[1]]) \div 3
                             /\ \E c \in 1..3 : mat1[yx[1]][3 * (yx[2] - 1) + c]
                                                  # mat2[yx[1]][3 * (yx[2] - 1) + c]}
            marked == {yx \in (1..Len(diff)) \X (1..MaxPixels) :
                          yx[2] <= Len(diff[yx[1]]) /\ diff[yx[1]][yx[2]]}
        IN /\ err = None
           /\ Len(diff) = Len(mat1)
           /\ \A y \in 1..Len(mat1) : Len(diff[y]) = Len(mat1[y]) \div 3
           /\ marked = differing
           /\ (mat1 = mat2) => (marked = {})
           /\ diffMatrix(mat2, mat1).val = diff
           /\ (Cardinality(differing) = 1) => (Cardinality(marked) = 1)

\* two pixels or more, exactly one of them different, in its blue byte alone
C7_Witness ==
    /\ pc = "return"
    /\ Len(mat1) = 2 /\ Len(mat1[1]) = 6
    /\ diff = <<<<FALSE, FALSE>>, <<FALSE, TRUE>>>>
    /\ pixelAt(mat1, 2, 2) = <<0, 0, 0>> /\ pixelAt(mat2, 2, 2) = <<0, 0, 255>>

\* C8: the first error a callee produces is returned at once, with false;
\* after it nothing is rendered, written or built, and no written file goes.
C8_FailFast ==
    [][/\ (err' # None) => (pc' = "done" /\ ret' = [set |-> TRUE, same |-> FALSE, err |-> err'])
       /\ (err # None) => UNCHANGED effects
       /\ written \subseteq written']_vars

inDisc(d, r, y, x) ==
    \E my \in 1..Len(d) : \E mx \in 1..Len(d[my]) :
        d[my][mx] /\ (x - mx) * (x - mx) + (y - my) * (y - my) <= r * r

\* C9: diffImage leaves its input as it was and returns a matrix of the same
\* dimensions whose every pixel is the input pixel if it lies in no disc of
\* the radius around a true mask entry, and highlightPixel of the input
\* pixel, applied once, if it lies in one or more.
C9_BlendsOnce ==
    [][(pc = "call" /\ pc' = "return") =>
          /\ mat1' = mat1
          /\ Len(img1') = Len(mat1)
          /\ \A y \in 1..Len(mat1) :
                /\ Len(img1'[y]) = Len(mat1[y])
                /\ \A x \in 1..(Len(mat1[y]) \div 3) :
                      pixelAt(img1', y, x) =
                          IF inDisc(diff, radius, y, x)
                          THEN highlightPixel(mat1[y][3 * (x - 1) + 1], mat1[y][3 * (x - 1) + 2],
                                              mat1[y][3 * (x - 1) + 3])
                          ELSE pixelAt(mat1, y, x)]_vars

\* a row of four pixels, the first two marked, radius 1: pixels 1 and 2 lie in
\* both discs, pixel 3 in one, pixel 4 in none
C9_Witness ==
    /\ pc = "return" /\ radius = 1
    /\ diff = <<<<TRUE, TRUE, FALSE, FALSE>>>>
    /\ pixelAt(mat1, 1, 1) = <<255, 255, 255>>
    /\ pixelAt(img1, 1, 1) = <<255, 255, 127>>
    /\ pixelAt(img1, 1, 4) = pixelAt(mat1, 1, 4)

\* C10: EqualPDFs does not return true for two different files whose page
\* counts differ.
C10_CountMismatchNeverEqual ==
    (pc = "done" /\ file1 # file2 /\ pages1 # pages2) => ~ret.same

\* C11: equalImgMatrix reports equal only for two matrices of the same
\* height, the same row lengths and the same bytes in every row.
C11_EqualOnlyIfIdentical ==
    (pc = "return" /\ same) => (SameShape(mat1, mat2) /\ mat1 = mat2)

====
